---- MODULE Spec2Model ----
(***************************************************************************)
(* A model of main.py of lazy-docker-build-push-action: the content hash   *)
(* over the docker inputs and the hashed files (compute_hash), the merge   *)
(* of the content-hash tag into the requested tags (get_image_names), the  *)
(* existence check (image_exists) and the emission of the outputs (main).  *)
(*                                                                         *)
(* A Python str or bytes value is a sequence of one-character strings.     *)
(***************************************************************************)
EXTENDS Integers, Sequences, FiniteSets, TLC

VARIABLES
    inputs,               \* os.environ: input name -> raw value ('' when unset)
    files,                \* filesystem: path -> [exists, bytes]
    extra_files,          \* args.files, the list main() is called with
    pc,                   \* position of the run inside main()
    hasher,               \* compute_hash: the bytes fed to the hasher
    content_hash_tag,     \* main: content_hash_tag
    tag_specs,            \* get_image_names: the tag specs get_tags() gave
    all_tags,             \* main: all_tags
    content_hashed_tags,  \* main: content_hashed_tags
    exists,               \* main: exists, as the list of image_exists results
    commands,             \* docker commands run so far, with their outcomes
    reads,                \* files opened for reading so far
    outputs,              \* set_output calls so far: <<name, rendered value>>
    error,                \* the exception that ended the run, or NoError
    change,               \* what was changed before the second compute_hash
    second                \* the result of the second compute_hash

vars == <<inputs, files, extra_files, pc, hasher, content_hash_tag,
          tag_specs, all_tags, content_hashed_tags, exists, commands, reads, outputs,
          error, change, second>>

-----------------------------------------------------------------------------
(* Characters and strings *)

\* the printable characters with code points 32..95 and 97..126
PrintableLow ==
    <<" ", "!", "\"", "#", "$", "%", "&", "'", "(", ")", "*", "+", ",", "-",
      ".", "/", "0", "1", "2", "3", "4", "5", "6", "7", "8", "9", ":", ";",
      "<", "=", ">", "?", "@", "A", "B", "C", "D", "E", "F", "G", "H", "I",
      "J", "K", "L", "M", "N", "O", "P", "Q", "R", "S", "T", "U", "V", "W",
      "X", "Y", "Z", "[", "\\", "]", "^", "_">>

PrintableHigh ==
    <<"a", "b", "c", "d", "e", "f", "g", "h", "i", "j", "k", "l", "m", "n",
      "o", "p", "q", "r", "s", "t", "u", "v", "w", "x", "y", "z", "{", "|",
      "}", "~">>

CharSet ==
    {PrintableLow[i] : i \in DOMAIN PrintableLow}
        \cup {PrintableHigh[i] : i \in DOMAIN PrintableHigh}
        \cup {"\n", "\t"}

\* ord(c): the code point of a character
OrdTable ==
    [c \in {PrintableLow[i] : i \in DOMAIN PrintableLow} |->
        31 + (CHOOSE i \in DOMAIN PrintableLow : PrintableLow[i] = c)]
    @@ [c \in {PrintableHigh[i] : i \in DOMAIN PrintableHigh} |->
        96 + (CHOOSE i \in DOMAIN PrintableHigh : PrintableHigh[i] = c)]
    @@ ("\n" :> 10) @@ ("\t" :> 9)

Ord(c) == OrdTable[c]

HexDigits ==
    <<"0", "1", "2", "3", "4", "5", "6", "7", "8", "9",
      "a", "b", "c", "d", "e", "f">>

\* str.__lt__: lexicographic order by code point
RECURSIVE StrLess(_, _)
StrLess(s, t) ==
    IF t = <<>> THEN FALSE
    ELSE IF s = <<>> THEN TRUE
    ELSE IF Head(s) = Head(t) THEN StrLess(Tail(s), Tail(t))
    ELSE Ord(Head(s)) < Ord(Head(t))

Contains(s, c) == \E i \in DOMAIN s : s[i] = c

\* str.find(c) + 1 when c is in s
Find(s, c) ==
    CHOOSE i \in DOMAIN s : s[i] = c /\ \A j \in 1..(i - 1) : s[j] # c

Min(S) == CHOOSE i \in S : \A j \in S : i <= j

\* str.split(sep) for a one-character separator: empty pieces are kept
RECURSIVE Split(_, _)
SplitAt(s, sep, at) ==
    <<SubSeq(s, 1, at - 1)>> \o Split(SubSeq(s, at + 1, Len(s)), sep)

Split(s, sep) ==
    IF ~Contains(s, sep) THEN <<s>> ELSE SplitAt(s, sep, Find(s, sep))

\* str.splitlines(): split at line ends, no empty last line, [] for ''
DropLastEmpty(parts) ==
    IF parts[Len(parts)] = <<>> THEN SubSeq(parts, 1, Len(parts) - 1) ELSE parts

SplitLines(s) == DropLastEmpty(Split(s, "\n"))

IsSpace(c) == c \in {" ", "\n", "\t"}

IsBlank(s) == \A i \in DOMAIN s : IsSpace(s[i])

\* the first and the last character of s that is not whitespace
FirstInk(s) ==
    CHOOSE i \in DOMAIN s : ~IsSpace(s[i]) /\ \A j \in 1..(i - 1) : IsSpace(s[j])

LastInk(s) ==
    CHOOSE i \in DOMAIN s :
        ~IsSpace(s[i]) /\ \A j \in (i + 1)..Len(s) : IsSpace(s[j])

\* str.strip(): leading and trailing whitespace removed
Strip(s) == IF IsBlank(s) THEN <<>> ELSE SubSeq(s, FirstInk(s), LastInk(s))

\* str.partition(sep): (head, sep, tail) around the first sep, or (s, '', '')
PartitionAt(s, sep, at) ==
    <<SubSeq(s, 1, at - 1), <<sep>>, SubSeq(s, at + 1, Len(s))>>

Partition(s, sep) ==
    IF ~Contains(s, sep) THEN <<s, <<>>, <<>>>>
    ELSE PartitionAt(s, sep, Find(s, sep))

\* '\n'.join(list)
RECURSIVE Join(_)
Join(list) ==
    IF list = <<>> THEN <<>>
    ELSE IF Len(list) = 1 THEN list[1]
    ELSE list[1] \o <<"\n">> \o Join(Tail(list))

RECURSIVE Flatten(_)
Flatten(lists) ==
    IF lists = <<>> THEN <<>> ELSE Head(lists) \o Flatten(Tail(lists))

\* repr(str): quoted, with backslash, the quote and control characters escaped
ReprQuote(s) ==
    IF Contains(s, "'") /\ ~Contains(s, "\"") THEN "\"" ELSE "'"

ReprChar(c, q) ==
    IF c = "\\" THEN <<"\\", "\\">>
    ELSE IF c = "\n" THEN <<"\\", "n">>
    ELSE IF c = "\t" THEN <<"\\", "t">>
    ELSE IF c = q THEN <<"\\", c>>
    ELSE <<c>>

Repr(s) ==
    LET q == ReprQuote(s)
    IN  <<q>> \o Flatten([i \in DOMAIN s |-> ReprChar(s[i], q)]) \o <<q>>

-----------------------------------------------------------------------------
(* Inputs *)

TAGS == <<"t", "a", "g", "s">>
FILE == <<"f", "i", "l", "e">>
CONTEXT == <<"c", "o", "n", "t", "e", "x", "t">>

DOCKER_INPUTS ==
    << <<"a", "n", "n", "o", "t", "a", "t", "i", "o", "n", "s">>,
       <<"b", "u", "i", "l", "d", "-", "a", "r", "g", "s">>,
       <<"b", "u", "i", "l", "d", "-", "c", "o", "n", "t", "e", "x", "t", "s">>,
       <<"t", "a", "r", "g", "e", "t">>,
       <<"u", "l", "i", "m", "i", "t">>,
       <<"l", "a", "b", "e", "l", "s">> >>

DockerInputNames == {DOCKER_INPUTS[i] : i \in DOMAIN DOCKER_INPUTS}

InputNames == DockerInputNames \cup {TAGS, FILE, CONTEXT}

NoError == [kind |-> "none", arg |-> <<>>]
MissingInput(name) == [kind |-> "MissingInput", arg |-> name]
FileNotFoundError(path) == [kind |-> "FileNotFoundError", arg |-> path]
IndexError == [kind |-> "IndexError", arg |-> <<>>]
AssertionError == [kind |-> "AssertionError", arg |-> <<>>]

\* get_input(name, required): the stripped value, or MissingInput
get_input(env, name, required) ==
    IF required /\ env[name] = <<>>
    THEN [raised |-> TRUE, error |-> MissingInput(name), value |-> <<>>]
    ELSE [raised |-> FALSE, error |-> NoError, value |-> Strip(env[name])]

\* _get_list(value): lines, then comma-separated items, each stripped
StripAll(list) == [i \in DOMAIN list |-> Strip(list[i])]

Items(lines) == Flatten([i \in DOMAIN lines |-> StripAll(Split(lines[i], ","))])

_get_list(value) == Items(SplitLines(value))

\* get_tags(): _get_input_list('tags', required=True)
get_tags(env) ==
    LET r == get_input(env, TAGS, TRUE)
    IN  IF r.raised
        THEN [raised |-> TRUE, error |-> r.error, value |-> <<>>]
        ELSE [raised |-> FALSE, error |-> NoError, value |-> _get_list(r.value)]

-----------------------------------------------------------------------------
(* Paths *)

RECURSIVE JoinWith(_, _)
JoinWith(list, sep) ==
    IF list = <<>> THEN <<>>
    ELSE IF Len(list) = 1 THEN list[1]
    ELSE list[1] \o <<sep>> \o JoinWith(Tail(list), sep)

IsComponent(c) == c # <<>> /\ c # <<".">>

IsAbsolute(s) == s # <<>> /\ s[1] = "/"

\* PurePosixPath.parts of the path written s
PathParts(s) ==
    (IF IsAbsolute(s) THEN << <<"/">> >> ELSE <<>>)
        \o SelectSeq(Split(s, "/"), IsComponent)

\* str(Path(s)): empty and '.' components dropped, '.' for the empty path
Path(s) ==
    LET body == JoinWith(SelectSeq(Split(s, "/"), IsComponent), "/")
        text == (IF IsAbsolute(s) THEN <<"/">> ELSE <<>>) \o body
    IN  IF text = <<>> THEN <<".">> ELSE text

\* Path(a) / b for a relative b
PathJoin(a, b) == Path(a \o <<"/">> \o b)

\* list.__lt__ on the parts: the first differing part decides
RECURSIVE PartsLess(_, _)
PartsLess(a, b) ==
    IF b = <<>> THEN FALSE
    ELSE IF a = <<>> THEN TRUE
    ELSE IF Head(a) = Head(b) THEN PartsLess(Tail(a), Tail(b))
    ELSE StrLess(Head(a), Head(b))

\* PurePath.__lt__
PathLess(p, q) == PartsLess(PathParts(p), PathParts(q))

\* sorted(list) of paths: stable; an element's place is the number of
\* elements that go before it
SortedPaths(list) ==
    LET Before(j, i) ==
            PathLess(list[j], list[i]) \/ (~PathLess(list[i], list[j]) /\ j < i)
        Rank(i) == Cardinality({j \in DOMAIN list : Before(j, i)}) + 1
    IN  [k \in DOMAIN list |-> list[CHOOSE i \in DOMAIN list : Rank(i) = k]]

\* sorted(list) of strings
SortedStrings(list) ==
    LET Before(j, i) ==
            StrLess(list[j], list[i]) \/ (~StrLess(list[i], list[j]) /\ j < i)
        Rank(i) == Cardinality({j \in DOMAIN list : Before(j, i)}) + 1
    IN  [k \in DOMAIN list |-> list[CHOOSE i \in DOMAIN list : Rank(i) = k]]

DOCKERFILE == <<"D", "o", "c", "k", "e", "r", "f", "i", "l", "e">>

\* get_dockerfile(): the 'file' input, or Dockerfile under the 'context' input
get_dockerfile(env) ==
    LET dockerfile == get_input(env, FILE, FALSE).value
        context == get_input(env, CONTEXT, FALSE).value
    IN  IF dockerfile # <<>> THEN Path(dockerfile)
        ELSE PathJoin(IF context # <<>> THEN context ELSE <<".">>, DOCKERFILE)

-----------------------------------------------------------------------------
(* compute_hash *)

DOCKER_PREFIX == <<"d", "o", "c", "k", "e", "r", ":">>
FILE_PREFIX == <<"f", "i", "l", "e", ":">>
FILE_RULE == <<"\n", "-", "-", "-", "-", "\n">>
HASH_PREFIX == <<"c", "o", "n", "t", "e", "n", "t", "-", "h", "a", "s", "h", "-">>

\* f'docker:{name}={value!r}\n' for one docker input
DockerRecord(env, name) ==
    DOCKER_PREFIX \o name \o <<"=">>
        \o Repr(get_input(env, name, FALSE).value) \o <<"\n">>

\* sorted(DOCKER_INPUTS)
SortedDockerInputs == SortedStrings(DOCKER_INPUTS)

\* the first loop of compute_hash: one record per docker input, names sorted
DockerRecords(env) ==
    Flatten([i \in DOMAIN SortedDockerInputs |->
                DockerRecord(env, SortedDockerInputs[i])])

\* the updates of the hasher for one file without its bytes
FileRecordPathOnly(fs, filename) ==
    FILE_PREFIX \o filename \o FILE_RULE \o FILE_RULE

\* the updates of the hasher for one file: header, bytes, trailer
FileRecord(fs, filename) ==
    FILE_PREFIX \o filename \o FILE_RULE \o fs[filename].bytes \o FILE_RULE

\* the files in the order given, not sorted
HashedFilesUnsorted(env, filenames) == filenames \o <<get_dockerfile(env)>>

\* the files compute_hash goes through, in its order
HashedFiles(env, filenames) ==
    SortedPaths(filenames \o <<get_dockerfile(env)>>)

CanOpen(fs, filename) == filename \in DOMAIN fs /\ fs[filename].exists

\* hexdigest() of a digest taken to be collision-free: the hex digits of the
\* bytes fed to the hasher
HexDigest(stream) ==
    [k \in 1..(2 * Len(stream)) |->
        LET code == Ord(stream[(k + 1) \div 2])
        IN  IF k % 2 = 1 THEN HexDigits[(code \div 16) + 1]
            ELSE HexDigits[(code % 16) + 1]]

\* the second loop of compute_hash over the sorted paths: it ends at the
\* first file that cannot be opened
HashFiles(fs, head, paths) ==
    LET bad == {i \in DOMAIN paths : ~CanOpen(fs, paths[i])}
    IN  IF bad # {}
        THEN [raised |-> TRUE, error |-> FileNotFoundError(paths[Min(bad)]),
              reads |-> SubSeq(paths, 1, Min(bad) - 1),
              stream |-> <<>>, value |-> <<>>]
        ELSE [raised |-> FALSE, error |-> NoError, reads |-> paths,
              stream |->
                head \o Flatten([i \in DOMAIN paths |-> FileRecord(fs, paths[i])]),
              value |-> <<>>]

\* f'content-hash-{hasher.hexdigest()}'
WithHexDigest(r) ==
    IF r.raised THEN r
    ELSE [r EXCEPT !.value = HASH_PREFIX \o HexDigest(r.stream)]

\* compute_hash(filenames): the tag, the bytes hashed and the files opened,
\* or the error of the first file that cannot be opened
compute_hash(env, fs, filenames) ==
    WithHexDigest(HashFiles(fs, DockerRecords(env), HashedFiles(env, filenames)))

-----------------------------------------------------------------------------
(* get_image_names *)

\* f'{name}:{tag}'
NameTag(name, tag) == name \o <<":">> \o tag

HasName(images, name) == \E i \in DOMAIN images : images[i].name = name

\* the content hash tag given only to a name that comes without a tag
AddTagOrHash(images, hash_tag, input_tag) ==
    LET name == Partition(input_tag, ":")[1]
        tag == Partition(input_tag, ":")[3]
        tags == IF tag # <<>> THEN {tag} ELSE {hash_tag}
    IN  IF HasName(images, name)
        THEN [i \in DOMAIN images |->
                IF images[i].name = name
                THEN [name |-> name, tags |-> images[i].tags \cup tags]
                ELSE images[i]]
        ELSE Append(images, [name |-> name, tags |-> tags])

\* images[name], then image_tags.add(tag) when the tag is not empty; a name
\* not seen before enters the dict last, with {content_hash_tag}
AddTag(images, hash_tag, input_tag) ==
    LET name == Partition(input_tag, ":")[1]
        tag == Partition(input_tag, ":")[3]
        extra == IF tag # <<>> THEN {tag} ELSE {}
    IN  IF HasName(images, name)
        THEN [i \in DOMAIN images |->
                IF images[i].name = name
                THEN [name |-> name, tags |-> images[i].tags \cup extra]
                ELSE images[i]]
        ELSE Append(images, [name |-> name, tags |-> {hash_tag} \cup extra])

\* the dict images after the loop over input_tags, in insertion order
RECURSIVE Images(_, _)
Images(input_tags, hash_tag) ==
    IF input_tags = <<>> THEN <<>>
    ELSE AddTag(Images(SubSeq(input_tags, 1, Len(input_tags) - 1), hash_tag),
                hash_tag, input_tags[Len(input_tags)])

\* the orders in which a set can be iterated
Orders(S) ==
    {o \in [1..Cardinality(S) -> S] : \A i, j \in DOMAIN o : i # j => o[i] # o[j]}

\* all_tags: names in dict order, the tags of a name in the iteration order
\* of its set, which the language leaves open
RECURSIVE AllTagLists(_)
AllTagLists(images) ==
    IF images = <<>> THEN {<<>>}
    ELSE {[i \in DOMAIN o |-> NameTag(Head(images).name, o[i])] \o rest :
            o \in Orders(Head(images).tags), rest \in AllTagLists(Tail(images))}

\* the content hash tags with the names in the reverse of dict order
ContentHashTagsReversed(images, hash_tag) ==
    [i \in DOMAIN images |->
        NameTag(images[Len(images) + 1 - i].name, hash_tag)]

\* content_hash_tags: one per name, in dict order
ContentHashTags(images, hash_tag) ==
    [i \in DOMAIN images |-> NameTag(images[i].name, hash_tag)]

\* get_image_names(content_hash_tag): the possible (all_tags,
\* content_hash_tags) results, or the error of get_tags
get_image_names(env, hash_tag) ==
    LET input_tags == get_tags(env)
        images == Images(input_tags.value, hash_tag)
    IN  IF input_tags.raised
        THEN [raised |-> TRUE, error |-> input_tags.error, tags |-> <<>>,
              all_tags |-> {<<>>}, content_hash_tags |-> <<>>]
        ELSE [raised |-> FALSE, error |-> NoError, tags |-> input_tags.value,
              all_tags |-> AllTagLists(images),
              content_hash_tags |-> ContentHashTags(images, hash_tag)]

-----------------------------------------------------------------------------
(* image_exists *)

\* how subprocess.check_call can end: exit status 0, CalledProcessError for
\* another exit status, OSError when the command cannot be started
Outcomes == {"zero", "nonzero", "oserror"}

OSError == [kind |-> "OSError", arg |-> <<>>]

Command(what, name_tag, outcome) ==
    [command |-> what, name_tag |-> name_tag, outcome |-> outcome]

\* image_exists(name_tag), given how the two docker commands would end
image_exists(name_tag, local, remote) ==
    LET first == Command("image inspect", name_tag, local)
        then == Command("manifest inspect", name_tag, remote)
    IN  IF local = "zero"
        THEN [raised |-> FALSE, error |-> NoError, value |-> TRUE,
              commands |-> <<first>>]
        ELSE IF local = "oserror"
        THEN [raised |-> TRUE, error |-> OSError, value |-> FALSE,
              commands |-> <<first>>]
        ELSE IF remote = "zero"
        THEN [raised |-> FALSE, error |-> NoError, value |-> TRUE,
              commands |-> <<first, then>>]
        ELSE IF remote = "oserror"
        THEN [raised |-> TRUE, error |-> OSError, value |-> FALSE,
              commands |-> <<first, then>>]
        ELSE [raised |-> FALSE, error |-> NoError, value |-> FALSE,
              commands |-> <<first, then>>]

-----------------------------------------------------------------------------
(* set_output *)

TRUE_TEXT == <<"t", "r", "u", "e">>
FALSE_TEXT == <<"f", "a", "l", "s", "e">>

\* the value set_output prints: a list joined by newlines, a bool as a word
RenderList(value) == Join(value)
RenderBool(value) == IF value THEN TRUE_TEXT ELSE FALSE_TEXT

set_output(outs, name, text) == Append(outs, [name |-> name, value |-> text])

-----------------------------------------------------------------------------
(* The states a run starts from *)

MaxSpecs == 2
MaxExtra == 2

NoChange == [kind |-> "none", name |-> <<>>, old |-> <<>>, new |-> <<>>,
             filenames |-> <<>>]
NoResult == [raised |-> FALSE, error |-> NoError, reads |-> <<>>,
             stream |-> <<>>, value |-> <<>>]

File(bytes) == [exists |-> TRUE, bytes |-> bytes]
NoFile == [exists |-> FALSE, bytes |-> <<>>]

NoInputs == [n \in InputNames |-> <<>>]

MainExtraFiles == << <<"a">> >>

MainFiles(dockerfile) == (DOCKERFILE :> dockerfile) @@ (<<"a">> :> File(<<"y">>))

\* the content hash tag of a run that finds its Dockerfile
MainHashTag ==
    compute_hash(NoInputs, MainFiles(File(<<"x">>)), MainExtraFiles).value

\* the items a 'tags' value is made of
Tokens ==
    { <<>>, <<"a">>, <<"b">>, <<"a", ":", "b">>, <<"a", ":", "c">>,
      <<":", "c">>, <<"a", ":">> \o MainHashTag }

Separators == { <<",", " ">>, <<"\n">> }

RECURSIVE Interleave(_, _)
Interleave(tokens, seps) ==
    IF Len(tokens) = 1 THEN tokens[1]
    ELSE tokens[1] \o seps[1] \o Interleave(Tail(tokens), Tail(seps))

\* the values of the 'tags' input: up to MaxSpecs items, separated
RawTags ==
    UNION {{Interleave(t, sp) : t \in [1..n -> Tokens],
                                sp \in [1..(n - 1) -> Separators]} :
           n \in 1..MaxSpecs}

Unstarted ==
    /\ pc = "start"
    /\ hasher = <<>>
    /\ content_hash_tag = <<>>
    /\ tag_specs = <<>>
    /\ all_tags = <<>>
    /\ content_hashed_tags = <<>>
    /\ exists = <<>>
    /\ commands = <<>>
    /\ reads = <<>>
    /\ outputs = <<>>
    /\ error = NoError
    /\ change = NoChange
    /\ second = NoResult

\* a run of main: any 'tags' value, the Dockerfile there or not
Init ==
    /\ inputs \in {[NoInputs EXCEPT ![TAGS] = raw] : raw \in RawTags}
    /\ files \in {MainFiles(File(<<"x">>)), MainFiles(NoFile)}
    /\ extra_files = MainExtraFiles
    /\ Unstarted

-----------------------------------------------------------------------------
(* main *)

Fail(e) ==
    /\ pc' = "failed"
    /\ error' = e

\* line 153: content_hash_tag = compute_hash(extra_files)
MainComputeHash ==
    /\ pc = "start"
    /\ LET r == compute_hash(inputs, files, extra_files)
       IN  /\ reads' = reads \o r.reads
           /\ hasher' = r.stream
           /\ content_hash_tag' = r.value
           /\ IF r.raised THEN Fail(r.error)
              ELSE pc' = "hashed" /\ error' = error
    /\ UNCHANGED <<inputs, files, extra_files, tag_specs, all_tags,
                   content_hashed_tags, exists, commands, outputs, change,
                   second>>

\* line 154: all_tags, content_hashed_tags = get_image_names(content_hash_tag)
MainGetImageNames ==
    /\ pc = "hashed"
    /\ LET r == get_image_names(inputs, content_hash_tag)
       IN  /\ tag_specs' = r.tags
           /\ all_tags' \in r.all_tags
           /\ content_hashed_tags' = r.content_hash_tags
           /\ IF r.raised THEN Fail(r.error)
              ELSE pc' = "resolved" /\ error' = error
    /\ UNCHANGED <<inputs, files, extra_files, hasher, content_hash_tag, exists,
                   commands, reads, outputs, change, second>>

\* line 156: the next image_exists(x) of the dict comprehension
MainImageExists ==
    /\ pc = "resolved"
    /\ Len(exists) < Len(content_hashed_tags)
    /\ \E local \in Outcomes, remote \in Outcomes :
         LET x == content_hashed_tags[Len(exists) + 1]
             r == image_exists(x, local, remote)
         IN  /\ commands' = commands \o r.commands
             /\ IF r.raised
                THEN Fail(r.error) /\ exists' = exists
                ELSE /\ exists' = Append(exists, r.value)
                     /\ UNCHANGED <<pc, error>>
    /\ UNCHANGED <<inputs, files, extra_files, hasher, content_hash_tag,
                   tag_specs, all_tags, content_hashed_tags, reads, outputs, change,
                   second>>

\* all(...) where the code has any(...)
AllTrue(list) == \A i \in DOMAIN list : list[i]

\* any(exists.values())
AnyTrue(list) == \E i \in DOMAIN list : list[i]

\* lines 158-162: set_output of 'tags', 'tag-existed' and 'build-required'
FirstOutputs(tags, results) ==
    LET tag_existed == AnyTrue(results)
    IN  set_output(
          set_output(
            set_output(<<>>, "tags", RenderList(tags)),
            "tag-existed", RenderBool(tag_existed)),
          "build-required", RenderBool(~tag_existed))

\* lines 166-168: set_output of 'image-name', 'image-tag', 'image-name-tag'
ImageOutputs(outs, name, tag, name_tag) ==
    set_output(
      set_output(
        set_output(outs, "image-name", name),
        "image-tag", tag),
      "image-name-tag", name_tag)

\* lines 158-168, once every content hash tag is looked up: the first three
\* outputs, then content_hashed_tags[0] split at its first colon, the
\* assertion on its tag, and the three outputs of the image
MainSetOutputs ==
    /\ pc = "resolved"
    /\ Len(exists) = Len(content_hashed_tags)
    /\ LET outs == FirstOutputs(all_tags, exists)
       IN  IF content_hashed_tags = <<>>
           THEN Fail(IndexError) /\ outputs' = outputs \o outs
           ELSE LET name_tag == content_hashed_tags[1]
                    name == Partition(name_tag, ":")[1]
                    tag == Partition(name_tag, ":")[3]
                IN  IF content_hash_tag = tag
                    THEN /\ outputs' = outputs
                                \o ImageOutputs(outs, name, tag, name_tag)
                         /\ pc' = "done"
                         /\ error' = error
                    ELSE Fail(AssertionError) /\ outputs' = outputs \o outs
    /\ UNCHANGED <<inputs, files, extra_files, hasher, content_hash_tag,
                   tag_specs, all_tags, content_hashed_tags, exists, commands, reads,
                   change, second>>

Next ==
    \/ MainComputeHash
    \/ MainGetImageNames
    \/ MainImageExists
    \/ MainSetOutputs

Spec == Init /\ [][Next]_vars

-----------------------------------------------------------------------------
(* compute_hash called a second time, with one thing changed *)

\* values of a docker input
HashValues ==
    { <<>>, <<"a">>, <<"b">>, <<" ", "a">>, <<"a", "\n">>, <<"a", "'">>,
      <<"\\">> }

\* contents of a hashed file
Contents == { <<>>, <<"x">> }

HashPaths == { DOCKERFILE, <<"a">>, <<"b">> }

\* the 'file' and 'context' inputs: unset, a Dockerfile named, a context named
HashLocations ==
    { NoInputs, [NoInputs EXCEPT ![FILE] = <<"b">>],
      [NoInputs EXCEPT ![CONTEXT] = <<".">>] }

HashFileSystems ==
    {(DOCKERFILE :> File(d)) @@ (<<"a">> :> File(a)) @@ (<<"b">> :> File(<<"x">>)) :
        d \in Contents, a \in Contents}

ExtraFileLists == UNION {[1..n -> HashPaths] : n \in 0..MaxExtra}

\* the docker inputs vary and the files are fixed, or the files, the list of
\* extra files and the place of the Dockerfile vary and the docker inputs
\* are unset
InitHash ==
    /\ \/ /\ inputs \in {[NoInputs EXCEPT ![n] = v] :
                            n \in DockerInputNames, v \in HashValues}
          /\ files = MainFiles(File(<<"x">>)) @@ (<<"b">> :> File(<<"x">>))
          /\ extra_files = MainExtraFiles
       \/ /\ inputs \in HashLocations
          /\ files \in HashFileSystems
          /\ extra_files \in ExtraFileLists
    /\ Unstarted

Rehash(what, env, fs, filenames) ==
    /\ pc = "hashed"
    /\ pc' = "rehashed"
    /\ change' = what
    /\ second' = compute_hash(env, fs, filenames)
    /\ UNCHANGED <<inputs, files, extra_files, hasher, content_hash_tag,
                   tag_specs, all_tags, content_hashed_tags, exists, commands, reads,
                   outputs, error>>

\* the same extra files, given in another order
RehashPermuted ==
    \E p \in Orders(DOMAIN extra_files) :
        LET filenames == [i \in DOMAIN p |-> extra_files[p[i]]]
        IN  Rehash([NoChange EXCEPT !.kind = "permute", !.filenames = filenames],
                   inputs, files, filenames)

\* one docker input set to another value
RehashInputChanged ==
    \E n \in DockerInputNames :
      \E v \in HashValues \ {inputs[n]} :
        Rehash([NoChange EXCEPT !.kind = "input", !.name = n,
                                !.old = inputs[n], !.new = v,
                                !.filenames = extra_files],
               [inputs EXCEPT ![n] = v], files, extra_files)

\* one hashed file with other bytes
RehashFileChanged ==
    \E i \in DOMAIN HashedFiles(inputs, extra_files) :
        LET f == HashedFiles(inputs, extra_files)[i]
        IN  \E bytes \in Contents \ {files[f].bytes} :
                Rehash([NoChange EXCEPT !.kind = "file", !.name = f,
                                        !.old = files[f].bytes, !.new = bytes,
                                        !.filenames = extra_files],
                       inputs, [files EXCEPT ![f] = File(bytes)], extra_files)

\* one hashed path given once more among the extra files
RehashDuplicated ==
    \E i \in DOMAIN HashedFiles(inputs, extra_files) :
        LET f == HashedFiles(inputs, extra_files)[i]
        IN  Rehash([NoChange EXCEPT !.kind = "duplicate", !.name = f,
                                    !.filenames = Append(extra_files, f)],
                   inputs, files, Append(extra_files, f))

NextHash ==
    \/ MainComputeHash
    \/ RehashPermuted
    \/ RehashInputChanged
    \/ RehashFileChanged
    \/ RehashDuplicated

SpecHash == InitHash /\ [][NextHash]_vars

-----------------------------------------------------------------------------
(* What the properties speak of *)

\* the list of tag specs the 'tags' input yields
TagSpecs == _get_list(Strip(inputs[TAGS]))

\* get_image_names has just returned, with the tag specs of the input
JustResolved == pc = "resolved" /\ exists = <<>>

\* the tag specs split at their first colon: <<name, ":" or "", tag>>
PartsOf(specs) == [i \in DOMAIN specs |-> Partition(specs[i], ":")]

\* the names of the split specs and the explicit tags given for a name
NamesOf(parts) == {parts[i][1] : i \in DOMAIN parts}
ExplicitTagsOf(parts, name) ==
    {parts[i][3] : i \in {j \in DOMAIN parts : parts[j][1] = name}} \ {<<>>}

\* the name:t with name a name of the specs and t the hash tag or an
\* explicit tag given for that name
NameTagsOf(parts, hash_tag) ==
    UNION {{NameTag(n, t) : t \in {hash_tag} \cup ExplicitTagsOf(parts, n)} :
           n \in NamesOf(parts)}

\* the positions at which a name appears for the first time
FirstSeenIn(parts) ==
    {i \in DOMAIN parts : \A j \in 1..(i - 1) : parts[j][1] # parts[i][1]}

\* the distinct names of the specs, in the order of first appearance
DistinctNames(parts, first) ==
    [k \in 1..Cardinality(first) |->
        parts[CHOOSE i \in first : Cardinality({j \in first : j <= i}) = k][1]]

FirstSeenNames(parts) == DistinctNames(parts, FirstSeenIn(parts))

\* one name:hash_tag per name, in the order of the names
OnePerName(names, hash_tag) ==
    [k \in DOMAIN names |-> names[k] \o <<":">> \o hash_tag]

HasEmptyName == \E i \in DOMAIN TagSpecs : Partition(TagSpecs[i], ":")[1] = <<>>

Finished == pc \in {"done", "failed"}

\* get_image_names has returned
Resolved ==
    \/ pc \in {"resolved", "done"}
    \/ pc = "failed" /\ error.kind \in {"OSError", "IndexError", "AssertionError"}

Elements(list) == {list[i] : i \in DOMAIN list}

OutputNames == [i \in DOMAIN outputs |-> outputs[i].name]

HasOutput(name) == \E i \in DOMAIN outputs : outputs[i].name = name
Output(name) == outputs[CHOOSE i \in DOMAIN outputs : outputs[i].name = name].value

\* the existence check has been run for the tag, and has found the image
Queried(name_tag) == \E i \in DOMAIN commands : commands[i].name_tag = name_tag
Reported(name_tag) ==
    \E i \in DOMAIN commands :
        commands[i].name_tag = name_tag /\ commands[i].outcome = "zero"

-----------------------------------------------------------------------------
(* Properties *)

\* C1: a run over a non-empty list of tag specs whose existence checks all
\* give an answer completes; it has then run the check for every content
\* tag, and it emits tag-existed = true and build-required = false when the
\* check found one of them, tag-existed = false and build-required = true
\* when it found none.
C1_BuildRequired ==
    /\ (pc = "failed" /\ TagSpecs # <<>>)
          => error.kind \in {"FileNotFoundError", "OSError"}
    /\ pc = "done" =>
          /\ content_hashed_tags # <<>>
          /\ \A i \in DOMAIN content_hashed_tags : Queried(content_hashed_tags[i])
          /\ Output("tag-existed") =
                RenderBool(\E i \in DOMAIN content_hashed_tags :
                              Reported(content_hashed_tags[i]))
          /\ Output("build-required") =
                RenderBool(\A i \in DOMAIN content_hashed_tags :
                              ~Reported(content_hashed_tags[i]))

\* a finished run over two names, the image found for one of them only
C1_Witness ==
    /\ pc = "done"
    /\ Len(content_hashed_tags) = 2
    /\ ~Reported(content_hashed_tags[1])
    /\ Reported(content_hashed_tags[2])
    /\ Output("tag-existed") = TRUE_TEXT

\* C2: when the 'tags' input yields no tag spec, the run hashes nothing,
\* reads no file, runs no existence check and emits no output, and it ends
\* with MissingInput naming 'tags' (a run that cannot read a file it hashes
\* is left aside).
C2_NoTagsNoSideEffects ==
    TagSpecs = <<>> =>
        /\ hasher = <<>>
        /\ reads = <<>>
        /\ commands = <<>>
        /\ outputs = <<>>
        /\ (Finished /\ error.kind # "FileNotFoundError")
              => error = MissingInput(TAGS)

\* C3: the emitted 'tags' are exactly the name:t with name a name of some
\* tag spec and t the content hash tag or an explicit tag given for that
\* name, and none of them appears twice.
C3_AllTags ==
    /\ JustResolved => tag_specs = TagSpecs
    /\ Resolved =>
          /\ Elements(all_tags) = NameTagsOf(PartsOf(tag_specs), content_hash_tag)
          /\ Cardinality(Elements(all_tags)) = Len(all_tags)
    /\ HasOutput("tags") =>
          /\ Output("tags") = Join(all_tags)
          /\ all_tags # <<>> => Split(Output("tags"), "\n") = all_tags

\* a finished run whose specs repeat a name, give it an explicit tag and
\* give it the content hash tag itself as an explicit tag
C3_Witness ==
    /\ pc = "done"
    /\ tag_specs = << <<"a", ":", "b">>, NameTag(<<"a">>, content_hash_tag) >>
    /\ Len(all_tags) = 2

\* C4: the content hash tags are one name:F per distinct name, in the order
\* in which the names first appear, and image-name is the name of the first
\* tag spec, image-tag is F and image-name-tag is image-name:F.
C4_ContentTags ==
    /\ JustResolved => tag_specs = TagSpecs
    /\ Resolved =>
          content_hashed_tags =
              OnePerName(FirstSeenNames(PartsOf(tag_specs)), content_hash_tag)
    /\ pc = "done" =>
          /\ Output("image-name") = Partition(tag_specs[1], ":")[1]
          /\ Output("image-tag") = content_hash_tag
          /\ Output("image-name-tag") =
                Output("image-name") \o <<":">> \o content_hash_tag

\* a finished run over two names, the first of them the later in the alphabet
C4_Witness ==
    /\ pc = "done"
    /\ Len(content_hashed_tags) = 2
    /\ Output("image-name") = <<"b">>
    /\ content_hashed_tags[2] = NameTag(<<"a">>, content_hash_tag)

\* C5: compute_hash gives the same tag for every order of the extra files.
C5_OrderInvariant ==
    change.kind = "permute" =>
        /\ ~second.raised
        /\ second.stream = hasher
        /\ second.value = content_hash_tag

\* two different extra files, hashed in both orders
C5_Witness ==
    /\ change.kind = "permute"
    /\ change.filenames # extra_files
    /\ second.value = content_hash_tag

\* C6 as stated: another value of a docker input, or other bytes of a hashed
\* file, change the bytes hashed and the tag, whatever the two values are.
C6_Sensitive ==
    change.kind \in {"input", "file"} =>
        /\ second.stream # hasher
        /\ second.value # content_hash_tag

\* C6 as amended: other bytes of a hashed file change the bytes hashed and
\* the tag, and so does another value of a docker input when the two values
\* differ once their leading and trailing whitespace is stripped.
C6_SensitiveStripped ==
    /\ change.kind = "file" =>
          /\ second.stream # hasher
          /\ second.value # content_hash_tag
    /\ (change.kind = "input" /\ Strip(change.old) # Strip(change.new)) =>
          /\ second.stream # hasher
          /\ second.value # content_hash_tag
    /\ (change.kind = "input" /\ Strip(change.old) = Strip(change.new)) =>
          /\ second.stream = hasher
          /\ second.value = content_hash_tag

\* a docker input changed between two values that differ in a quote only
C6_Witness ==
    /\ change.kind = "input"
    /\ change.old = <<"a">>
    /\ change.new = <<"a", "'">>
    /\ second.value # content_hash_tag

\* C7: a hashed path given once more among the extra files leaves the tag
\* as it was, and every path is read once.
C7_Deduplicated ==
    change.kind = "duplicate" =>
        /\ second.value = content_hash_tag
        /\ Cardinality(Elements(second.reads)) = Len(second.reads)

\* C8: image_exists never raises; it inspects the local image first, the
\* remote manifest only after the local inspection failed, and runs no
\* command twice for a tag.
C8_NeverFails ==
    /\ error.kind # "OSError"
    /\ \A i \in DOMAIN commands :
          /\ commands[i].command = "manifest inspect" =>
                /\ i > 1
                /\ commands[i - 1] =
                      Command("image inspect", commands[i].name_tag, "nonzero")
          /\ \A j \in DOMAIN commands :
                (commands[j].command = commands[i].command
                    /\ commands[j].name_tag = commands[i].name_tag) => j = i

\* C9: a tag spec with an empty name ends the run with an invalid-tag-spec
\* error, and no tag or content tag has an empty image name.
C9_EmptyNameRejected ==
    /\ \A i \in DOMAIN all_tags : Partition(all_tags[i], ":")[1] # <<>>
    /\ \A i \in DOMAIN content_hashed_tags :
          Partition(content_hashed_tags[i], ":")[1] # <<>>
    /\ (Finished /\ HasEmptyName /\ error.kind # "FileNotFoundError")
          => error.kind = "InvalidTagSpecError"

\* C10: a run fails before any output, or completes with the six outputs in
\* their order, each once, image-tag the content hash tag and image-name-tag
\* one of the emitted tags.
C10_AllOrNothing ==
    /\ pc # "done" => outputs = <<>>
    /\ pc = "done" =>
          /\ OutputNames = <<"tags", "tag-existed", "build-required",
                             "image-name", "image-tag", "image-name-tag">>
          /\ Output("image-tag") = content_hash_tag
          /\ Output("image-name-tag") \in Elements(Split(Output("tags"), "\n"))

====
